---- MODULE Spec2Model ----
(***************************************************************************)
(* A model of src/main.py: the seminar-kit generator.                      *)
(*                                                                         *)
(* One request to POST /generate-seminar-kit (generate_kit) is followed    *)
(* from its first statement to its response.  The text provider behind     *)
(* gpt_generate and the file system behind prs.save / doc.save / open are  *)
(* the environment: each call to them is a nondeterministic choice among   *)
(* the outcomes they can have.                                             *)
(*                                                                         *)
(* Strings.  A Python str is a sequence of chunks.  Provider text is       *)
(* written one character per chunk, so that startswith, split, strip,      *)
(* lstrip and replace are computed on it as Python computes them.  Text    *)
(* that the program only copies (the topic, the templates, the messages)   *)
(* is written as longer chunks; no pattern the program looks for occurs    *)
(* inside such a chunk.  U+2022 and U+25E6 are the chunks Bullet and       *)
(* WhiteBullet, "\n" is the chunk NL.                                      *)
(***************************************************************************)
EXTENDS Integers, Sequences, FiniteSets, TLC

VARIABLES
    pc,                \* the statement generate_kit is about to execute
    body,              \* SeminarKitRequest: topic and the student's fields
    detailed_content,  \* generate_detailed_content: the text gpt_generate returned
    sections,          \* the outline: sections as parsed, then as returned
    qna_text,          \* generate_kit: the text gpt_generate returned
    qna_pairs,         \* generate_kit: the pairs as parsed, then as used
    prs,               \* generate_enhanced_pptx: the Presentation's slides
    doc,               \* generate_docx: the Document's paragraphs
    files,             \* STATIC_PATH: file name -> content (<< >> is zero bytes)
    pptx_filename,     \* what generate_enhanced_pptx returned
    docx_filename,     \* what generate_docx returned
    qna_filename,      \* the transcript's name
    stdout,            \* what print() has written
    response           \* what generate_kit returned or raised

vars == <<pc, body, detailed_content, sections, qna_text, qna_pairs, prs, doc,
          files, pptx_filename, docx_filename, qna_filename, stdout, response>>

----------------------------------------------------------------------------
(* Bounds of the model.                                                    *)

\* Longest provider text, in lines, drawn freely from the line alphabets.
MaxLines == 3
\* Most well-formed section blocks a long outline text starts with.
MaxSections == 4
\* Most well-formed question/answer blocks a long Q&A text starts with.
MaxPairs == 5

----------------------------------------------------------------------------
(* Python's str operations, on sequences of chunks.                        *)

NL == "\n"
Bullet == "(U+2022)"
WhiteBullet == "(U+25E6)"
None == << >>
Whitespace == {" ", NL}

RECURSIVE Flatten(_)
\* "".join(parts)
Flatten(parts) ==
    IF parts = << >> THEN << >> ELSE Head(parts) \o Flatten(Tail(parts))

RECURSIVE LStrip(_, _)
\* s.lstrip(chars): drop every leading chunk that is in chars
LStrip(s, chars) ==
    IF s # << >> /\ Head(s) \in chars THEN LStrip(Tail(s), chars) ELSE s

RECURSIVE RStrip(_, _)
\* s.rstrip(chars)
RStrip(s, chars) ==
    IF s # << >> /\ s[Len(s)] \in chars
    THEN RStrip(SubSeq(s, 1, Len(s) - 1), chars)
    ELSE s

\* s.strip()
Strip(s) == RStrip(LStrip(s, Whitespace), Whitespace)

\* s.startswith(prefix)
StartsWith(s, prefix) ==
    Len(s) >= Len(prefix) /\ SubSeq(s, 1, Len(prefix)) = prefix

\* c in s, for a one-character c
Contains(s, c) == \E i \in 1..Len(s) : s[i] = c

RECURSIVE Split(_, _)
\* s.split(sep), for a one-character sep: always at least one part
Split(s, sep) ==
    IF ~Contains(s, sep) THEN <<s>>
    ELSE LET i == CHOOSE k \in 1..Len(s) :
                      s[k] = sep /\ \A j \in 1..(k - 1) : s[j] # sep
         IN  <<SubSeq(s, 1, i - 1)>> \o Split(SubSeq(s, i + 1, Len(s)), sep)

\* s.split(sep, 1)[1], for an s that contains sep: what follows the first sep
AfterFirst(s, sep) ==
    LET i == CHOOSE k \in 1..Len(s) :
                 s[k] = sep /\ \A j \in 1..(k - 1) : s[j] # sep
    IN  SubSeq(s, i + 1, Len(s))

RECURSIVE Replace(_, _)
\* s.replace(old, ''): every occurrence of old, left to right, is removed
Replace(s, old) ==
    IF s = << >> THEN << >>
    ELSE IF StartsWith(s, old) THEN Replace(SubSeq(s, Len(old) + 1, Len(s)), old)
    ELSE <<Head(s)>> \o Replace(Tail(s), old)

----------------------------------------------------------------------------
(* gpt_generate and the text provider.                                     *)

\* The first 50 characters of a prompt are its first chunk: prompt[:50]
Prefix50(prompt) == <<Head(prompt)>>

\* structure_prompt of generate_detailed_content
StructurePrompt(topic) ==
    <<"Create a detailed seminar presentation structure f", "or the topic (quote)">>
        \o topic \o <<"(quote). (the format of 6 sections follows)">>

\* qna_prompt of generate_kit
QnaPrompt(topic) ==
    <<"Generate exactly 8 comprehensive questions and det",
      "ailed answers for a student seminar presentation on (quote)">>
        \o topic \o <<"(quote). (the format Q: / A: follows)">>

\* The placeholder without the cut of the prompt to 50 characters.
ErrorPlaceholderWholePrompt(prompt) ==
    <<"E", "r", "r", "o", "r", " ", "generating content for", ":", " ">>
        \o prompt \o <<".", ".", ".">>

\* What gpt_generate returns when the provider's call raised.
ErrorPlaceholder(prompt) ==
    <<"E", "r", "r", "o", "r", " ", "generating content for", ":", " ">>
        \o Prefix50(prompt) \o <<".", ".", ".">>

\* What gpt_generate returns when the provider answered: content.strip()
GptContent(content) == Strip(content)

\* The line print() writes in gpt_generate's except branch.
GptErrorLine == <<"GPT Generation Error: ", "(the provider's exception)">>

----------------------------------------------------------------------------
(* The outline parser of generate_detailed_content.                        *)

SECTION == <<"S", "e", "c", "t", "i", "o", "n">>

\* A stripped line opens a section.
IsSectionStart(line) == StartsWith(line, SECTION) /\ Contains(line, ":")

\* section_title = line.split(':', 1)[1].strip()
SectionTitle(line) == Strip(AfterFirst(line, ":"))

\* point = line.lstrip('- ').strip()
DashPoint(line) == Strip(LStrip(line, {"-", " "}))

\* point = line.lstrip('(U+2022) ').strip()
BulletPoint(line) == Strip(LStrip(line, {Bullet, " "}))

\* The loop's state: sections, and current_section as None or <<section>>.
OutlineStart == [sections |-> << >>, current_section |-> None]

\* current_section['points'].append(point), if point
AddPoint(st, point) ==
    IF point # << >>
    THEN [st EXCEPT !.current_section[1].points = Append(@, point)]
    ELSE st

\* One iteration of `for line in lines`.
OutlineLine(st, raw) ==
    LET line == Strip(raw) IN
    IF line = << >> THEN st
    ELSE IF IsSectionStart(line)
    THEN [sections |->
              IF st.current_section # None
              THEN Append(st.sections, st.current_section[1])
              ELSE st.sections,
          current_section |->
              <<[title |-> SectionTitle(line), points |-> << >>, sub_points |-> << >>]>>]
    ELSE IF StartsWith(line, <<"-">>) /\ st.current_section # None
    THEN AddPoint(st, DashPoint(line))
    ELSE IF StartsWith(line, <<Bullet>>) /\ st.current_section # None
    THEN AddPoint(st, BulletPoint(line))
    ELSE st

RECURSIVE OutlineLoop(_, _)
\* for line in lines: ...
OutlineLoop(st, lines) ==
    IF lines = << >> THEN st ELSE OutlineLoop(OutlineLine(st, Head(lines)), Tail(lines))

\* The parse without "Add the last section".
ParseOutlineNoLastFlush(text) == OutlineLoop(OutlineStart, Split(text, NL)).sections

\* The parse: the loop, then "Add the last section".
ParseOutline(text) ==
    LET st == OutlineLoop(OutlineStart, Split(text, NL)) IN
    IF st.current_section # None
    THEN Append(st.sections, st.current_section[1])
    ELSE st.sections

\* if len(sections) < 4
MinSections == 4

\* The fallback of generate_detailed_content's try block.
FallbackSections(topic) ==
    << [title  |-> <<"Introduction and Overview">>,
        points |-> << <<"Definition and scope of ">> \o topic,
                      <<"Importance in current technological landscape">>,
                      <<"Objectives of this presentation">>,
                      <<"Expected outcomes and benefits">> >>],
       [title  |-> <<"Literature Review and Background">>,
        points |-> << <<"Historical development and evolution">>,
                      <<"Key research contributions">>,
                      <<"Current state of technology">>,
                      <<"Gaps in existing knowledge">> >>],
       [title  |-> <<"Core Concepts and Methodology">>,
        points |-> << <<"Fundamental principles and theories">>,
                      <<"Technical architecture and design">>,
                      <<"Implementation methodologies">>,
                      <<"Performance metrics and evaluation">> >>],
       [title  |-> <<"Applications and Case Studies">>,
        points |-> << <<"Industry applications and use cases">>,
                      <<"Real-world implementation examples">>,
                      <<"Success stories and best practices">>,
                      <<"Comparative analysis with alternatives">> >>],
       [title  |-> <<"Challenges and Limitations">>,
        points |-> << <<"Technical challenges and constraints">>,
                      <<"Implementation barriers">>,
                      <<"Cost and resource considerations">>,
                      <<"Scalability and performance issues">> >>],
       [title  |-> <<"Future Scope and Recommendations">>,
        points |-> << <<"Emerging trends and opportunities">>,
                      <<"Research directions and possibilities">>,
                      <<"Recommendations for implementation">>,
                      <<"Expected future developments">> >>] >>

\* The fallback taken for 4 sections too.
ReturnedSectionsOffByOne(parsed, topic) ==
    IF Len(parsed) <= MinSections THEN FallbackSections(topic) ELSE parsed

\* What generate_detailed_content returns for the sections it parsed.
ReturnedSections(parsed, topic) ==
    IF Len(parsed) < MinSections THEN FallbackSections(topic) ELSE parsed

----------------------------------------------------------------------------
(* The Q&A parser of generate_kit.                                         *)

QUESTION == <<"Q", "u", "e", "s", "t", "i", "o", "n">>
ANSWER == <<"A", "n", "s", "w", "e", "r">>

\* line.startswith('Q:') or line.startswith('Question')
IsQuestionLine(line) == StartsWith(line, <<"Q", ":">>) \/ StartsWith(line, QUESTION)

\* line.startswith('A:') or line.startswith('Answer')
IsAnswerLine(line) == StartsWith(line, <<"A", ":">>) \/ StartsWith(line, ANSWER)

\* line.replace('Q:', '').replace('Question:', '').strip()
QuestionText(line) == Strip(Replace(Replace(line, <<"Q", ":">>), QUESTION \o <<":">>))

\* line.replace('A:', '').replace('Answer:', '').strip()
AnswerText(line) == Strip(Replace(Replace(line, <<"A", ":">>), ANSWER \o <<":">>))

\* The loop's state.
QnaStart == [qna_pairs |-> << >>, current_q |-> << >>, current_a |-> << >>]

\* The append without the test of current_a.
FlushUnanswered(st) ==
    IF st.current_q # << >>
    THEN Append(st.qna_pairs, [question |-> st.current_q, answer |-> st.current_a])
    ELSE st.qna_pairs

\* if current_q and current_a: qna_pairs.append(...)
Flush(st) ==
    IF st.current_q # << >> /\ st.current_a # << >>
    THEN Append(st.qna_pairs, [question |-> st.current_q, answer |-> st.current_a])
    ELSE st.qna_pairs

\* The iteration with a question line that does not replace a question
\* still waiting for its answer.
QnaLineKeepsFirstQuestion(st, raw) ==
    LET line == Strip(raw) IN
    IF IsQuestionLine(line)
    THEN [qna_pairs |-> Flush(st),
          current_q |-> IF st.current_q # << >> /\ st.current_a = << >>
                        THEN st.current_q ELSE QuestionText(line),
          current_a |-> << >>]
    ELSE IF IsAnswerLine(line)
    THEN [st EXCEPT !.current_a = AnswerText(line)]
    ELSE IF st.current_a # << >> /\ line # << >> /\ ~StartsWith(line, <<"Q", ":">>)
    THEN [st EXCEPT !.current_a = st.current_a \o <<" ">> \o line]
    ELSE st

\* The iteration with a continuation appended without the space.
QnaLineNoSeparator(st, raw) ==
    LET line == Strip(raw) IN
    IF IsQuestionLine(line)
    THEN [qna_pairs |-> Flush(st), current_q |-> QuestionText(line), current_a |-> << >>]
    ELSE IF IsAnswerLine(line)
    THEN [st EXCEPT !.current_a = AnswerText(line)]
    ELSE IF st.current_a # << >> /\ line # << >> /\ ~StartsWith(line, <<"Q", ":">>)
    THEN [st EXCEPT !.current_a = st.current_a \o line]
    ELSE st

\* One iteration of `for line in qna_text.split('\n')`.
QnaLine(st, raw) ==
    LET line == Strip(raw) IN
    IF IsQuestionLine(line)
    THEN [qna_pairs |-> Flush(st), current_q |-> QuestionText(line), current_a |-> << >>]
    ELSE IF IsAnswerLine(line)
    THEN [st EXCEPT !.current_a = AnswerText(line)]
    ELSE IF st.current_a # << >> /\ line # << >> /\ ~StartsWith(line, <<"Q", ":">>)
    THEN [st EXCEPT !.current_a = st.current_a \o <<" ">> \o line]
    ELSE st

RECURSIVE QnaLoop(_, _)
\* for line in qna_text.split('\n'): ...
QnaLoop(st, lines) ==
    IF lines = << >> THEN st ELSE QnaLoop(QnaLine(st, Head(lines)), Tail(lines))

\* The parse: the loop, then "Add the last Q&A pair".
ParseQna(text) == Flush(QnaLoop(QnaStart, Split(text, NL)))

\* if len(qna_pairs) < 5
MinPairs == 5

\* The fallback Q&A of generate_kit.
FallbackQna(topic) ==
    << [question |-> <<"What is ">> \o topic \o <<" and why is it important?">>,
        answer   |-> topic \o <<" is a significant technological advancement (...)">>],
       [question |-> <<"What are the key technical components of ">> \o topic \o <<"?">>,
        answer   |-> <<"The main technical components include core algorithms (...)">>],
       [question |-> <<"What are the real-world applications of ">> \o topic \o <<"?">>,
        answer   |-> topic \o <<" finds applications in multiple industries (...)">>],
       [question |-> <<"What are the main advantages and limitations of ">> \o topic \o <<"?">>,
        answer   |-> <<"Key advantages include improved efficiency (...)">>],
       [question |-> <<"What does the future hold for ">> \o topic \o <<"?">>,
        answer   |-> <<"Future developments in ">> \o topic \o <<" are expected to focus (...)">>],
       [question |-> <<"How does ">> \o topic \o <<" compare with alternative approaches?">>,
        answer   |-> <<"Compared to traditional methods, ">> \o topic \o <<" offers (...)">>],
       [question |-> <<"What are the main challenges in implementing ">> \o topic \o <<"?">>,
        answer   |-> <<"Implementation challenges include technical complexity (...)">>],
       [question |-> <<"What research opportunities exist in ">> \o topic \o <<"?">>,
        answer   |-> <<"Research opportunities include algorithm optimization (...)">>] >>

\* The fallback taken for 5 pairs too.
UsedPairsOffByOne(parsed, topic) ==
    IF Len(parsed) <= MinPairs THEN FallbackQna(topic) ELSE parsed

\* The pairs generate_kit goes on with, for the pairs it parsed.
UsedPairs(parsed, topic) ==
    IF Len(parsed) < MinPairs THEN FallbackQna(topic) ELSE parsed

----------------------------------------------------------------------------
(* Rendering: what the slide deck, the report and the transcript hold.     *)

LowerCase == <<"a", "b", "c", "d", "e", "f", "g", "h", "i", "j", "k", "l", "m",
               "n", "o", "p", "q", "r", "s", "t", "u", "v", "w", "x", "y", "z">>
UpperCase == <<"A", "B", "C", "D", "E", "F", "G", "H", "I", "J", "K", "L", "M",
               "N", "O", "P", "Q", "R", "S", "T", "U", "V", "W", "X", "Y", "Z">>

\* The upper case of the longer chunks that reach str.upper().
UpperChunk(c) ==
    CASE c = "edge computing" -> "EDGE COMPUTING"
      [] c = "Robotics" -> "ROBOTICS"
      [] c = "Introduction and Overview" -> "INTRODUCTION AND OVERVIEW"
      [] c = "Literature Review and Background" -> "LITERATURE REVIEW AND BACKGROUND"
      [] c = "Core Concepts and Methodology" -> "CORE CONCEPTS AND METHODOLOGY"
      [] c = "Applications and Case Studies" -> "APPLICATIONS AND CASE STUDIES"
      [] c = "Challenges and Limitations" -> "CHALLENGES AND LIMITATIONS"
      [] c = "Future Scope and Recommendations" -> "FUTURE SCOPE AND RECOMMENDATIONS"
      [] OTHER -> c

\* s.upper()
Upper(s) ==
    [i \in 1..Len(s) |->
        IF \E k \in 1..26 : LowerCase[k] = s[i]
        THEN UpperCase[CHOOSE k \in 1..26 : LowerCase[k] = s[i]]
        ELSE UpperChunk(s[i])]

\* The title slide: slide_layouts[0], the topic, the student's block.
TitleSlide(topic, student_info) ==
    [layout |-> 0,
     title  |-> Upper(topic),
     text   |-> <<"Presented by: ">> \o student_info.name \o <<NL, "Roll No: ">>
                \o student_info.roll \o <<NL>> \o student_info.college
                \o <<NL, "Semester: ">> \o student_info.semester \o <<" | Branch: ">>
                \o student_info.branch \o <<NL, NL, "Academic Seminar Presentation">>]

\* The agenda slide: one numbered line per section.
AgendaSlide(secs) ==
    [layout |-> 1,
     title  |-> <<"PRESENTATION AGENDA">>,
     text   |-> Flatten([i \in 1..Len(secs) |->
                    <<ToString(i), ". ">> \o secs[i].title \o <<NL>>])]

\* if 'sub_points' in section: the "Key Details" block of a content slide
KeyDetails(section) ==
    IF "sub_points" \in DOMAIN section
    THEN <<NL, "Key Details:", NL>>
         \o Flatten([j \in 1..Len(section.sub_points) |->
                <<" ", " ", WhiteBullet, " ">> \o section.sub_points[j] \o <<NL>>])
    ELSE << >>

\* One content slide: the section's title in upper case, its points, its details.
ContentSlide(section) ==
    [layout |-> 1,
     title  |-> Upper(section.title),
     text   |-> Flatten([j \in 1..Len(section.points) |->
                    <<Bullet, " ">> \o section.points[j] \o <<NL>>])
                \o KeyDetails(section)]

\* The conclusion slide.
ConclusionSlide(topic) ==
    [layout |-> 1,
     title  |-> <<"CONCLUSION & FUTURE SCOPE">>,
     text   |-> <<Bullet, " ">> \o topic
                \o <<" represents a significant advancement in technology", NL,
                     "(four more fixed points)", NL, NL,
                     "Thank you for your attention!", NL, "Questions & Discussion">>]

\* The deck without its agenda slide.
SlidesWithoutAgenda(topic, secs, student_info) ==
    <<TitleSlide(topic, student_info)>>
        \o [i \in 1..Len(secs) |-> ContentSlide(secs[i])]
        \o <<ConclusionSlide(topic)>>

\* prs.slides after the four blocks of add_slide calls.
Slides(topic, secs, student_info) ==
    <<TitleSlide(topic, student_info), AgendaSlide(secs)>>
        \o [i \in 1..Len(secs) |-> ContentSlide(secs[i])]
        \o <<ConclusionSlide(topic)>>

\* The paragraphs of one section of the report.
ReportSection(i, section) ==
    <<[style |-> "Heading 1", text |-> <<ToString(i), ". ">> \o section.title]>>
        \o [j \in 1..Len(section.points) |->
              [style |-> "Normal", text |-> <<Bullet, " ">> \o section.points[j]]]
        \o (IF "sub_points" \in DOMAIN section /\ section.sub_points # << >>
            THEN <<[style |-> "Normal", text |-> <<"Detailed Information:">>]>>
                 \o [j \in 1..Len(section.sub_points) |->
                       [style |-> "Normal",
                        text  |-> <<" ", " ", WhiteBullet, " ">> \o section.sub_points[j]]]
            ELSE << >>)
        \o <<[style |-> "Normal", text |-> << >>]>>

\* The paragraphs of one pair of the report.
ReportPair(i, qa) ==
    <<[style |-> "Heading 3", text |-> <<"Q", ToString(i), ": ">> \o qa.question],
      [style |-> "Normal", text |-> <<"Answer: ">> \o qa.answer],
      [style |-> "Normal", text |-> << >>]>>

\* The Document's paragraphs, in the order generate_docx adds them.
Paragraphs(topic, secs, student_info, qna) ==
    <<[style |-> "Title", text |-> Upper(topic)],
      [style |-> "Normal", text |-> <<"Seminar Report">>],
      [style |-> "Normal", text |-> << >>],
      [style |-> "Normal", text |-> <<"Submitted by: ">> \o student_info.name],
      [style |-> "Normal", text |-> <<"Roll Number: ">> \o student_info.roll],
      [style |-> "Normal", text |-> <<"College: ">> \o student_info.college],
      [style |-> "Normal", text |-> <<"Semester: ">> \o student_info.semester],
      [style |-> "Normal", text |-> <<"Branch: ">> \o student_info.branch],
      [style |-> "Page Break", text |-> << >>],
      [style |-> "Heading 1", text |-> <<"TABLE OF CONTENTS">>]>>
        \o [i \in 1..Len(secs) |->
              [style |-> "Normal", text |-> <<ToString(i), ". ">> \o secs[i].title]]
        \o <<[style |-> "Normal",
              text  |-> <<ToString(Len(secs) + 1), ". Questions & Answers">>],
             [style |-> "Normal", text |-> <<ToString(Len(secs) + 2), ". Conclusion">>],
             [style |-> "Page Break", text |-> << >>]>>
        \o Flatten([i \in 1..Len(secs) |-> ReportSection(i, secs[i])])
        \o <<[style |-> "Heading 1",
              text  |-> <<ToString(Len(secs) + 1), ". Questions & Answers">>]>>
        \o Flatten([i \in 1..Len(qna) |-> ReportPair(i, qna[i])])
        \o <<[style |-> "Heading 1", text |-> <<ToString(Len(secs) + 2), ". Conclusion">>],
             [style |-> "Normal",
              text  |-> <<"This seminar on ">> \o topic
                        \o <<" has provided comprehensive insights (...) of ">> \o topic
                        \o <<" in current technological advancements.">>]>>

\* What the f.write calls of generate_kit put in the transcript.
Transcript(topic, student_info, qna) ==
    <<"COMPREHENSIVE QUESTIONS & ANSWERS", NL, "Topic: ">> \o topic
        \o <<NL, "Prepared for: ">> \o student_info.name \o <<" (">>
        \o student_info.roll \o <<")", NL, "College: ">> \o student_info.college
        \o <<NL, "Semester: ">> \o student_info.semester \o <<" | Branch: ">>
        \o student_info.branch \o <<NL, "(80 times =)", NL, NL>>
        \o Flatten([i \in 1..Len(qna) |->
              <<"QUESTION ", ToString(i), ":", NL>> \o qna[i].question
                  \o <<NL, NL, "ANSWER ", ToString(i), ":", NL>> \o qna[i].answer
                  \o <<NL, "(60 times -)", NL, NL>>])

----------------------------------------------------------------------------
(* The inputs: requests, provider answers, file names, save outcomes.      *)

\* The requests the model follows.
Requests ==
    {[topic |-> t, name |-> <<"Asha Rao">>, roll |-> <<"21CS042">>,
      college |-> <<"City Engineering College">>, semester |-> <<"6">>,
      branch |-> <<"CSE">>] : t \in {<<"edge computing">>, <<"Robotics">>}}

\* Lines of an outline answer:
\*   "Section 1: Core: AI"   "Section 3:"   "  - point "   "(U+2022)dot"
\*   "-"   "Sections"   "  "
OutlineAlphabet ==
    { <<"S", "e", "c", "t", "i", "o", "n", " ", "1", ":", " ", "C", "o", "r", "e", ":", " ", "A", "I">>,
      <<"S", "e", "c", "t", "i", "o", "n", " ", "3", ":">>,
      <<" ", " ", "-", " ", "p", "o", "i", "n", "t", " ">>,
      <<Bullet, "d", "o", "t">>,
      <<"-">>,
      <<"S", "e", "c", "t", "i", "o", "n", "s">>,
      <<" ", " ">> }

\* A well-formed block of an outline answer: "Section 2: Uses" / "- one"
SectionBlock ==
    << <<"S", "e", "c", "t", "i", "o", "n", " ", "2", ":", " ", "U", "s", "e", "s">>,
       <<"-", " ", "o", "n", "e">> >>

\* Lines of a Q&A answer:
\*   "Q: first"   "Q: second"   "A: only answer"   "A: part1"   "more text"
\*   "Question 2: a Q: b"   "  "
QnaAlphabet ==
    { <<"Q", ":", " ", "f", "i", "r", "s", "t">>,
      <<"Q", ":", " ", "s", "e", "c", "o", "n", "d">>,
      <<"A", ":", " ", "o", "n", "l", "y", " ", "a", "n", "s", "w", "e", "r">>,
      <<"A", ":", " ", "p", "a", "r", "t", "1">>,
      <<"m", "o", "r", "e", " ", "t", "e", "x", "t">>,
      <<"Q", "u", "e", "s", "t", "i", "o", "n", " ", "2", ":", " ", "a", " ", "Q", ":", " ", "b">>,
      <<" ", " ">> }

\* A well-formed block of a Q&A answer: "Q: why" / "A: so"
PairBlock ==
    << <<"Q", ":", " ", "w", "h", "y">>, <<"A", ":", " ", "s", "o">> >>

\* Every sequence of at most n lines of the alphabet.
LinesUpTo(alphabet, n) == UNION {[1..k -> alphabet] : k \in 0..n}

RECURSIVE Repeat(_, _)
Repeat(block, n) == IF n = 0 THEN << >> ELSE block \o Repeat(block, n - 1)

RECURSIVE JoinLines(_)
\* "\n".join(lines)
JoinLines(lines) ==
    IF lines = << >> THEN << >>
    ELSE IF Len(lines) = 1 THEN lines[1]
    ELSE lines[1] \o <<NL>> \o JoinLines(Tail(lines))

\* What the provider may answer to the structure prompt: any short text, and
\* texts of 3 to MaxSections well-formed blocks followed by at most one line.
OutlineContents ==
    {JoinLines(ls) : ls \in LinesUpTo(OutlineAlphabet, MaxLines)}
        \cup {JoinLines(Repeat(SectionBlock, n) \o tail) :
                  n \in 3..MaxSections, tail \in LinesUpTo(OutlineAlphabet, 1)}

\* What the provider may answer to the Q&A prompt: any short text, and texts
\* of 4 to MaxPairs well-formed blocks followed by at most one line.
QnaContents ==
    {JoinLines(ls) : ls \in LinesUpTo(QnaAlphabet, MaxLines)}
        \cup {JoinLines(Repeat(PairBlock, n) \o tail) :
                  n \in 4..MaxPairs, tail \in LinesUpTo(QnaAlphabet, 1)}

\* The values uuid.uuid4() may return.
UUIDs == {"uuid-a", "uuid-b"}

\* What the file system may have done when a save or a write returns or raises:
\* the file holds the document, holds nothing, is not there, or the call raised.
SaveOutcomes == {"written", "zero_length", "missing", "raised"}

----------------------------------------------------------------------------
(* The state machine of one request.                                       *)

topic == body.topic

student_info ==
    [name |-> body.name, roll |-> body.roll, college |-> body.college,
     semester |-> body.semester, branch |-> body.branch]

\* print(msg)
Printed(msg) == stdout' = Append(stdout, msg)

\* os.path.exists(file_path), in the directory dir
Exists(dir, filename) == filename \in DOMAIN dir

\* The directory after a save of content under filename with the outcome.
Saved(filename, content, outcome) ==
    CASE outcome = "written" -> (filename :> content) @@ files
      [] outcome = "zero_length" -> (filename :> << >>) @@ files
      [] OTHER -> files

\* raise HTTPException(status_code=500, detail=...) of generate_kit's except
HTTPException(e) ==
    [status_code |-> 500,
     detail |-> <<"Failed to generate enhanced seminar kit: ">> \o e]

Init ==
    /\ pc = "generate_detailed_content"
    /\ body \in Requests
    /\ detailed_content = None
    /\ sections = << >>
    /\ qna_text = None
    /\ qna_pairs = << >>
    /\ prs = << >>
    /\ doc = << >>
    /\ files = << >>
    /\ pptx_filename = None
    /\ docx_filename = None
    /\ qna_filename = None
    /\ stdout = << >>
    /\ response = None

\* generate_kit up to gpt_generate(structure_prompt) inside
\* generate_detailed_content: the provider answers, or its call raises.
GptGenerateStructure ==
    /\ pc = "generate_detailed_content"
    /\ \/ \E content \in OutlineContents :
            /\ detailed_content' = GptContent(content)
            /\ stdout' = stdout \o
                   <<<<"Generating enhanced seminar kit for topic: ">> \o topic>>
       \/ /\ detailed_content' = ErrorPlaceholder(StructurePrompt(topic))
          /\ stdout' = stdout \o
                 <<<<"Generating enhanced seminar kit for topic: ">> \o topic,
                   GptErrorLine>>
    /\ pc' = "parse_sections"
    /\ UNCHANGED <<body, sections, qna_text, qna_pairs, prs, doc, files,
                   pptx_filename, docx_filename, qna_filename, response>>

\* generate_detailed_content: the parse of detailed_content.
ParseSections ==
    /\ pc = "parse_sections"
    /\ sections' = ParseOutline(detailed_content)
    /\ pc' = "return_sections"
    /\ UNCHANGED <<body, detailed_content, qna_text, qna_pairs, prs, doc, files,
                   pptx_filename, docx_filename, qna_filename, stdout, response>>

\* generate_detailed_content: the fallback and the return to generate_kit.
\* detailed_content is a local of the call that returns here.
ReturnSections ==
    /\ pc = "return_sections"
    /\ sections' = ReturnedSections(sections, topic)
    /\ detailed_content' = None
    /\ Printed(<<"Generated ", ToString(Len(sections')), " detailed sections">>)
    /\ pc' = "gpt_generate_qna"
    /\ UNCHANGED <<body, qna_text, qna_pairs, prs, doc, files,
                   pptx_filename, docx_filename, qna_filename, response>>

\* generate_kit: gpt_generate(qna_prompt).
GptGenerateQna ==
    /\ pc = "gpt_generate_qna"
    /\ \/ \E content \in QnaContents :
            /\ qna_text' = GptContent(content)
            /\ UNCHANGED stdout
       \/ /\ qna_text' = ErrorPlaceholder(QnaPrompt(topic))
          /\ Printed(GptErrorLine)
    /\ pc' = "parse_qna"
    /\ UNCHANGED <<body, detailed_content, sections, qna_pairs, prs, doc, files,
                   pptx_filename, docx_filename, qna_filename, response>>

\* generate_kit: the parse of qna_text.
ParseQnaPairs ==
    /\ pc = "parse_qna"
    /\ qna_pairs' = ParseQna(qna_text)
    /\ pc' = "qna_fallback"
    /\ UNCHANGED <<body, detailed_content, sections, qna_text, prs, doc, files,
                   pptx_filename, docx_filename, qna_filename, stdout, response>>

\* generate_kit: the fallback Q&A.  qna_text is not read after it.
QnaFallback ==
    /\ pc = "qna_fallback"
    /\ qna_pairs' = UsedPairs(qna_pairs, topic)
    /\ qna_text' = None
    /\ Printed(<<"Generated ", ToString(Len(qna_pairs')), " Q&A pairs">>)
    /\ pc' = "generate_enhanced_pptx"
    /\ UNCHANGED <<body, detailed_content, sections, prs, doc, files,
                   pptx_filename, docx_filename, qna_filename, response>>

\* The exception generate_enhanced_pptx raises for an outcome it does not accept.
PptxError(outcome) ==
    <<"Failed to create enhanced PPTX: ">> \o
        (IF outcome = "raised" THEN <<"(the exception of prs.save)">>
         ELSE <<"PPTX file was not created at ", "(file_path)">>)

\* generate_enhanced_pptx(body.topic, sections, student_info), called by
\* generate_kit, whose except turns its exception into the response.
generate_enhanced_pptx ==
    /\ pc = "generate_enhanced_pptx"
    /\ \E file_id \in UUIDs, outcome \in SaveOutcomes :
         LET filename == <<"seminar_", file_id, ".pptx">> IN
         /\ prs' = Slides(topic, sections, student_info)
         /\ files' = Saved(filename, prs', outcome)
         /\ IF outcome # "raised" /\ Exists(files', filename)
            THEN /\ Printed(<<"Enhanced PPTX created successfully at: ">> \o filename)
                 /\ pptx_filename' = filename
                 /\ pc' = "generate_docx"
                 /\ UNCHANGED response
            ELSE /\ stdout' = stdout \o
                        << <<"Error creating enhanced PPTX: ">> \o Tail(PptxError(outcome)),
                           <<"Error in generate_kit: ">> \o PptxError(outcome) >>
                 /\ response' = HTTPException(PptxError(outcome))
                 /\ pc' = "done"
                 /\ UNCHANGED pptx_filename
    /\ UNCHANGED <<body, detailed_content, sections, qna_text, qna_pairs, doc,
                   docx_filename, qna_filename>>

\* The exception generate_docx raises for an outcome it does not accept.
DocxError(outcome) ==
    <<"Failed to create enhanced DOCX: ">> \o
        (IF outcome = "raised" THEN <<"(the exception of doc.save)">>
         ELSE <<"DOCX file was not created at ", "(file_path)">>)

\* generate_docx(body.topic, sections, student_info, qna_pairs).
generate_docx ==
    /\ pc = "generate_docx"
    /\ \E file_id \in UUIDs, outcome \in SaveOutcomes :
         LET filename == <<"seminar_", file_id, ".docx">> IN
         /\ doc' = Paragraphs(topic, sections, student_info, qna_pairs)
         /\ files' = Saved(filename, doc', outcome)
         /\ IF outcome # "raised" /\ Exists(files', filename)
            THEN /\ Printed(<<"Enhanced DOCX created successfully at: ">> \o filename)
                 /\ docx_filename' = filename
                 /\ pc' = "write_qna"
                 /\ UNCHANGED response
            ELSE /\ stdout' = stdout \o
                        << <<"Error creating enhanced DOCX: ">> \o Tail(DocxError(outcome)),
                           <<"Error in generate_kit: ">> \o DocxError(outcome) >>
                 /\ response' = HTTPException(DocxError(outcome))
                 /\ pc' = "done"
                 /\ UNCHANGED docx_filename
    /\ UNCHANGED <<body, detailed_content, sections, qna_text, qna_pairs, prs,
                   pptx_filename, qna_filename>>

\* The body generate_kit returns.
Success ==
    [success |-> TRUE,
     message |-> <<"Enhanced seminar kit generated successfully!">>,
     pptx_url |-> <<"http://localhost:8000/download/">> \o pptx_filename,
     docx_url |-> <<"http://localhost:8000/download/">> \o docx_filename,
     qna_url  |-> <<"http://localhost:8000/download/">> \o qna_filename',
     details  |-> [sections_generated |-> Len(sections),
                   questions_generated |-> Len(qna_pairs),
                   presentation_slides |-> Len(sections) + 3]]

\* generate_kit: the transcript is written and the response returned; an
\* exception of open or write is turned into the response by the except.
WriteQnaFile ==
    /\ pc = "write_qna"
    /\ \E file_id \in UUIDs, outcome \in SaveOutcomes :
         LET filename == <<"qna_", file_id, ".txt">> IN
         /\ qna_filename' = filename
         /\ files' = Saved(filename, Transcript(topic, student_info, qna_pairs), outcome)
         /\ IF outcome # "raised"
            THEN /\ response' = Success
                 /\ UNCHANGED stdout
            ELSE /\ response' = HTTPException(<<"(the exception of open or write)">>)
                 /\ Printed(<<"Error in generate_kit: ", "(the exception of open or write)">>)
    /\ pc' = "done"
    /\ UNCHANGED <<body, detailed_content, sections, qna_text, qna_pairs, prs, doc,
                   pptx_filename, docx_filename>>

Next ==
    \/ GptGenerateStructure
    \/ ParseSections
    \/ ReturnSections
    \/ GptGenerateQna
    \/ ParseQnaPairs
    \/ QnaFallback
    \/ generate_enhanced_pptx
    \/ generate_docx
    \/ WriteQnaFile

Spec == Init /\ [][Next]_vars

----------------------------------------------------------------------------
(* What the claims below are stated with.                                  *)

\* The k-th smallest member of a set of line numbers.
Kth(S, k) == CHOOSE i \in S : Cardinality({j \in S : j < i}) = k - 1

\* The last member of a non-empty set of line numbers.
Last(S) == CHOOSE i \in S : \A j \in S : j <= i

\* The request failed: generate_kit raised its HTTPException.
Failed == "status_code" \in DOMAIN response

\* The request succeeded: generate_kit returned its body.
Succeeded == "success" \in DOMAIN response

\* gpt_generate's except branch ran for the structure prompt: its line is the
\* second one printed.
StructureCallFailed == Len(stdout) >= 2 /\ stdout[2] = GptErrorLine

\* gpt_generate's except branch ran for the Q&A prompt: its line comes after
\* the "Generated n detailed sections" line.
QnaCallFailed == \E i \in 3..Len(stdout) : stdout[i] = GptErrorLine

\* The file is in the directory and holds at least one byte.
NonEmptyFile(filename) == Exists(files, filename) /\ files[filename] # << >>

----------------------------------------------------------------------------
(* C1                                                                      *)

\* The six titles of the fallback outline.
SixTitles ==
    << <<"Introduction and Overview">>, <<"Literature Review and Background">>,
       <<"Core Concepts and Methodology">>, <<"Applications and Case Studies">>,
       <<"Challenges and Limitations">>, <<"Future Scope and Recommendations">> >>

\* secs is the six-section template: the six titles, four points each, the
\* first point naming the topic, and no sub_points.
IsSixSectionTemplate(secs) ==
    /\ Len(secs) = 6
    /\ \A i \in 1..6 :
          /\ secs[i].title = SixTitles[i]
          /\ Len(secs[i].points) = 4
          /\ DOMAIN secs[i] = {"title", "points"}
    /\ secs[1].points[1] = <<"Definition and scope of ">> \o topic

\* C1: when generate_detailed_content returns, it returns the six-section
\* template (four points each, no parsed section kept) if the parse found
\* fewer than 4 sections, and the parsed sections unchanged if it found 4 or
\* more.
C1_SectionFallbackThreshold ==
    [][(pc = "return_sections" /\ pc' = "gpt_generate_qna") =>
          IF Len(sections) < 4
          THEN /\ IsSixSectionTemplate(sections')
               /\ \A i \in 1..Len(sections'), j \in 1..Len(sections) :
                     sections'[i] # sections[j]
          ELSE sections' = sections]_vars

\* Exactly 4 sections were parsed and generate_detailed_content returned them.
C1_Witness ==
    /\ pc = "gpt_generate_qna"
    /\ Len(sections) = 4
    /\ \A i \in 1..4 : "sub_points" \in DOMAIN sections[i]

----------------------------------------------------------------------------
(* C2                                                                      *)

\* pairs is the eight-pair template: eight pairs, each question naming the topic.
IsEightPairTemplate(pairs) ==
    /\ Len(pairs) = 8
    /\ pairs[1].question = <<"What is ">> \o topic \o <<" and why is it important?">>
    /\ pairs[8].question = <<"What research opportunities exist in ">> \o topic \o <<"?">>
    /\ \A i \in 1..8 : Contains(pairs[i].question, topic[1])

\* C2: the pairs generate_kit goes on with are the eight-pair template (no
\* parsed pair kept) if the parse produced fewer than 5 pairs, and the parsed
\* pairs unchanged if it produced 5 or more.
C2_QnaFallbackThreshold ==
    [][(pc = "qna_fallback" /\ pc' = "generate_enhanced_pptx") =>
          IF Len(qna_pairs) < 5
          THEN /\ IsEightPairTemplate(qna_pairs')
               /\ \A i \in 1..Len(qna_pairs'), j \in 1..Len(qna_pairs) :
                     qna_pairs'[i] # qna_pairs[j]
          ELSE qna_pairs' = qna_pairs]_vars

\* Exactly 5 pairs were parsed and generate_kit went on with them.
C2_Witness ==
    /\ pc = "generate_enhanced_pptx"
    /\ Len(qna_pairs) = 5
    /\ ~QnaCallFailed

----------------------------------------------------------------------------
(* C3                                                                      *)

\* C3: a file name a render returned to its caller names a file that exists
\* and is not empty: the deck's and the report's once their function
\* returned, the transcript's once generate_kit returned its body.
C3_ReturnedArtifactsNonEmpty ==
    /\ pptx_filename # None => NonEmptyFile(pptx_filename)
    /\ docx_filename # None => NonEmptyFile(docx_filename)
    /\ Succeeded => NonEmptyFile(qna_filename)

----------------------------------------------------------------------------
(* C4                                                                      *)

\* C4: after a failed provider call gpt_generate has returned the placeholder
\* and nothing was raised; the parse of the placeholder is below the
\* threshold; the template takes its place (six sections, eight pairs); and
\* a request that fails fails with a render's error.
C4_ProviderFailureAbsorbed ==
    /\ pc # "done" => response = None
    /\ StructureCallFailed =>
          /\ pc = "parse_sections" =>
                detailed_content =
                    <<"E", "r", "r", "o", "r", " ", "generating content for", ":", " ",
                      "Create a detailed seminar presentation structure f", ".", ".", ".">>
          /\ pc = "return_sections" => Len(sections) < 4
          /\ pc \notin {"parse_sections", "return_sections"} =>
                IsSixSectionTemplate(sections)
    /\ QnaCallFailed =>
          /\ pc = "parse_qna" =>
                qna_text =
                    <<"E", "r", "r", "o", "r", " ", "generating content for", ":", " ",
                      "Generate exactly 8 comprehensive questions and det", ".", ".", ".">>
          /\ pc = "qna_fallback" => Len(qna_pairs) < 5
          /\ pc \notin {"parse_qna", "qna_fallback"} => IsEightPairTemplate(qna_pairs)
    /\ Failed =>
          response.detail[2] \in {"Failed to create enhanced PPTX: ",
                                  "Failed to create enhanced DOCX: ",
                                  "(the exception of open or write)"}

\* Both provider calls failed and the request succeeded.
C4_Witness ==
    /\ pc = "done"
    /\ StructureCallFailed
    /\ QnaCallFailed
    /\ Succeeded
    /\ response.details.sections_generated = 6
    /\ response.details.questions_generated = 8

----------------------------------------------------------------------------
(* The Q&A text as the claims about its parse read it.                     *)

\* What the lines of a Q&A text say, without going through them in order:
\*   lines      the stripped lines;
\*   answered   the numbers of the question lines that have a text and whose
\*              last answer line before the next question line has a text;
\*   answer     for such a line, the text of that last answer line, then
\*              each non-empty line after it, up to the next question line,
\*              after one space.
QnaReading(text) ==
    LET raw == Split(text, NL)
        n == Len(raw)
        lines == [i \in 1..n |-> Strip(raw[i])]
        isQ == [i \in 1..n |-> IsQuestionLine(lines[i])]
        isA == [i \in 1..n |-> ~isQ[i] /\ IsAnswerLine(lines[i])]
        blockEnd == [i \in 1..n |->
                        IF \E j \in (i + 1)..n : isQ[j]
                        THEN Kth({j \in (i + 1)..n : isQ[j]}, 1) - 1
                        ELSE n]
        answers == [i \in 1..n |-> {j \in (i + 1)..blockEnd[i] : isA[j]}]
        answered == {i \in 1..n :
                        /\ isQ[i]
                        /\ QuestionText(lines[i]) # << >>
                        /\ answers[i] # {}
                        /\ AnswerText(lines[Last(answers[i])]) # << >>}
        more == [i \in answered |->
                    {j \in (Last(answers[i]) + 1)..blockEnd[i] : lines[j] # << >>}]
    IN  [lines    |-> lines,
         answered |-> answered,
         answer   |-> [i \in answered |->
                          AnswerText(lines[Last(answers[i])])
                              \o Flatten([m \in 1..Cardinality(more[i]) |->
                                     <<" ">> \o lines[Kth(more[i], m)]])]]

----------------------------------------------------------------------------
(* C5                                                                      *)

\* C5: the parsed pairs are, in order, those of the question lines that got
\* an answer before the next question line, each with that line's question
\* text: a question line followed by another question line before any
\* answer is in no pair.  "Q: first", "Q: second", "A: only answer" parses
\* to the one pair ("second", "only answer").
C5_OrphanedQuestionDropped ==
    pc = "qna_fallback" =>
        LET r == QnaReading(qna_text) IN
        /\ Len(qna_pairs) = Cardinality(r.answered)
        /\ \A k \in 1..Len(qna_pairs) :
              qna_pairs[k].question = QuestionText(r.lines[Kth(r.answered, k)])
        /\ qna_text = <<"Q", ":", " ", "f", "i", "r", "s", "t", NL,
                        "Q", ":", " ", "s", "e", "c", "o", "n", "d", NL,
                        "A", ":", " ", "o", "n", "l", "y", " ", "a", "n", "s", "w", "e", "r">>
              => qna_pairs = <<[question |-> <<"s", "e", "c", "o", "n", "d">>,
                                answer   |-> <<"o", "n", "l", "y", " ", "a", "n", "s", "w", "e", "r">>]>>

\* "Q: first", "Q: second", "A: only answer" was parsed.
C5_Witness ==
    /\ pc = "qna_fallback"
    /\ qna_text = <<"Q", ":", " ", "f", "i", "r", "s", "t", NL,
                    "Q", ":", " ", "s", "e", "c", "o", "n", "d", NL,
                    "A", ":", " ", "o", "n", "l", "y", " ", "a", "n", "s", "w", "e", "r">>
    /\ Len(qna_pairs) = 1

----------------------------------------------------------------------------
(* C6                                                                      *)

\* C6: the answer of each parsed pair is the text of its answer line
\* followed by every non-empty line after it, up to the next question line
\* or the end, in order, each after exactly one space; lines that come
\* while no answer is held are in no answer.  "Q: X", "A: part1",
\* "more text" gives the answer "part1 more text".
C6_ContinuationAppended ==
    pc = "qna_fallback" =>
        LET r == QnaReading(qna_text) IN
        /\ Len(qna_pairs) = Cardinality(r.answered)
        /\ \A k \in 1..Len(qna_pairs) :
              qna_pairs[k].answer = r.answer[Kth(r.answered, k)]
        /\ ( /\ Len(r.lines) = 3
             /\ IsQuestionLine(r.lines[1])
             /\ QuestionText(r.lines[1]) # << >>
             /\ r.lines[2] = <<"A", ":", " ", "p", "a", "r", "t", "1">>
             /\ r.lines[3] = <<"m", "o", "r", "e", " ", "t", "e", "x", "t">> )
              => qna_pairs =
                     <<[question |-> QuestionText(r.lines[1]),
                        answer   |-> <<"p", "a", "r", "t", "1", " ",
                                       "m", "o", "r", "e", " ", "t", "e", "x", "t">>]>>

\* A question line, "A: part1" and "more text" were parsed into one pair
\* whose answer is "part1 more text".
C6_Witness ==
    /\ pc = "qna_fallback"
    /\ Len(Split(qna_text, NL)) = 3
    /\ Split(qna_text, NL)[2] = <<"A", ":", " ", "p", "a", "r", "t", "1">>
    /\ Split(qna_text, NL)[3] = <<"m", "o", "r", "e", " ", "t", "e", "x", "t">>
    /\ Len(qna_pairs) = 1
    /\ qna_pairs[1].answer =
           <<"p", "a", "r", "t", "1", " ", "m", "o", "r", "e", " ", "t", "e", "x", "t">>

----------------------------------------------------------------------------
(* C7                                                                      *)

\* deck is a title slide, an agenda slide, one slide per section of secs in
\* order, and a conclusion slide.
IsDeckOf(deck, secs) ==
    /\ Len(deck) = Len(secs) + 3
    /\ deck[1].layout = 0
    /\ deck[2].title = <<"PRESENTATION AGENDA">>
    /\ \A i \in 1..Len(secs) :
          /\ deck[i + 2].title = Upper(secs[i].title)
          /\ Len(Split(deck[i + 2].text, Bullet)) = Len(secs[i].points) + 1
    /\ deck[Len(secs) + 3].title = <<"CONCLUSION & FUTURE SCOPE">>

\* C7: the deck generate_enhanced_pptx builds for k sections has k + 3
\* slides: title, agenda, one per section in order, conclusion; this for
\* the sections of the request and for every k from 0 on (here the first k
\* sections of the template); and presentation_slides in the response is
\* the number of slides of the deck.
C7_SlideCount ==
    /\ prs # << >> => IsDeckOf(prs, sections)
    /\ Succeeded => response.details.presentation_slides = Len(prs)
    /\ pc = "generate_enhanced_pptx" =>
          \A k \in 0..6 :
              LET secs == SubSeq(FallbackSections(topic), 1, k) IN
              IsDeckOf(Slides(topic, secs, student_info), secs)

\* A deck was built for 4 parsed sections and the request succeeded.
C7_Witness ==
    /\ Succeeded
    /\ Len(sections) = 4
    /\ Len(prs) = 7
    /\ response.details.presentation_slides = 7

----------------------------------------------------------------------------
(* C9                                                                      *)

\* What the lines of an outline text say, without going through them in
\* order:
\*   lines    the stripped lines;
\*   starts   the numbers of the lines that start with Section and hold a colon;
\*   points   for such a line, the numbers of the lines up to the next such
\*            line that start with - or U+2022 and have a text left when
\*            the markers and blanks before it are dropped.
OutlineReading(text) ==
    LET raw == Split(text, NL)
        n == Len(raw)
        lines == [i \in 1..n |-> Strip(raw[i])]
        starts == {i \in 1..n : StartsWith(lines[i], SECTION) /\ Contains(lines[i], ":")}
        blockEnd == [i \in starts |->
                        IF \E j \in starts : j > i
                        THEN Kth({j \in starts : j > i}, 1) - 1
                        ELSE n]
        pointText == [i \in 1..n |->
                        IF StartsWith(lines[i], <<"-">>)
                        THEN Strip(LStrip(lines[i], {"-", " "}))
                        ELSE IF StartsWith(lines[i], <<Bullet>>)
                        THEN Strip(LStrip(lines[i], {Bullet, " "}))
                        ELSE << >>]
    IN  [lines     |-> lines,
         starts    |-> starts,
         pointText |-> pointText,
         points    |-> [i \in starts |->
                           {j \in (i + 1)..blockEnd[i] : pointText[j] # << >>}]]

\* C9: the parse holds one section per section-start line, in line order;
\* its title is the stripped text after the line's first colon; its points
\* are the non-empty texts of the - and U+2022 lines up to the next
\* section-start line or the end, in line order; its sub_points are empty.
\* So lines before the first section-start line, and all other lines, add
\* nothing, and the section open at the end is in the parse.
C9_OutlineParse ==
    pc = "return_sections" =>
        LET r == OutlineReading(detailed_content) IN
        /\ Len(sections) = Cardinality(r.starts)
        /\ \A k \in 1..Len(sections) :
              LET i == Kth(r.starts, k)
                  colon == CHOOSE c \in 1..Len(r.lines[i]) :
                               /\ r.lines[i][c] = ":"
                               /\ \A d \in 1..(c - 1) : r.lines[i][d] # ":"
              IN
              /\ sections[k].title =
                     Strip(SubSeq(r.lines[i], colon + 1, Len(r.lines[i])))
              /\ Len(sections[k].points) = Cardinality(r.points[i])
              /\ \A m \in 1..Len(sections[k].points) :
                    sections[k].points[m] = r.pointText[Kth(r.points[i], m)]
              /\ sections[k].sub_points = << >>

\* A text was parsed into two sections, the first closed by the second
\* section-start line and holding a point, the second closed by the end.
C9_Witness ==
    /\ pc = "return_sections"
    /\ Len(sections) = 2
    /\ Len(sections[1].points) = 1
    /\ sections[2].points = << >>

----------------------------------------------------------------------------
(* C10                                                                     *)

\* C10: every pair of qna_pairs, as parsed and as handed to generate_docx
\* and to the transcript, has a question and an answer that are not empty.
C10_PairsNonEmpty ==
    \A k \in 1..Len(qna_pairs) :
        qna_pairs[k].question # << >> /\ qna_pairs[k].answer # << >>

\* Four pairs were parsed, three appended at a question line and one at
\* the last question line, which itself got no answer before the end.
C10_Witness ==
    /\ pc = "qna_fallback"
    /\ Len(qna_pairs) = 4
    /\ Cardinality({i \in 1..Len(Split(qna_text, NL)) :
                       IsQuestionLine(Split(qna_text, NL)[i])}) = 5

----------------------------------------------------------------------------
(* C11                                                                     *)

\* C11: every section generate_detailed_content has returned, parsed or
\* from the template, has a title that is not empty and has no whitespace
\* at either end, whatever the provider's text was, a text with the line
\* "Section 3:" included.
C11_TitlesNonEmptyTrimmed ==
    pc \notin {"generate_detailed_content", "parse_sections", "return_sections"} =>
        \A k \in 1..Len(sections) :
            /\ sections[k].title # << >>
            /\ sections[k].title = Strip(sections[k].title)

----------------------------------------------------------------------------
(* C12                                                                     *)

\* C12: on the content slide of each section of the deck, the "Key Details"
\* header is in the text exactly when the section has sub_points and they
\* are not empty; the slide of a section made by the parser, whose
\* sub_points is the empty sequence, has no "Key Details" text.
C12_KeyDetailsIffSubPoints ==
    prs # << >> =>
        \A i \in 1..Len(sections) :
            Contains(prs[i + 2].text, "Key Details:")
                <=> ( /\ "sub_points" \in DOMAIN sections[i]
                      /\ sections[i].sub_points # << >> )

----------------------------------------------------------------------------
(* C13                                                                     *)

\* A question line without the prefix it begins with ("Q:", "Question:" or
\* "Question"), trimmed; what follows the prefix is kept as it is.
AfterQuestionPrefix(line) ==
    Strip(IF StartsWith(line, <<"Q", ":">>)
          THEN SubSeq(line, 3, Len(line))
          ELSE IF StartsWith(line, QUESTION \o <<":">>)
          THEN SubSeq(line, Len(QUESTION) + 2, Len(line))
          ELSE SubSeq(line, Len(QUESTION) + 1, Len(line)))

\* C13: at every line of the Q&A text that begins with "Q:" or "Question",
\* the parser first appends the pair it holds if its question and its answer
\* are both non-empty, then holds as question the rest of the line after
\* that prefix, trimmed, a later "Q:" or "Question:" of the line included,
\* and holds an empty answer.
C13_QuestionLineStep ==
    pc = "qna_fallback" =>
        LET raw == Split(qna_text, NL)
            n == Len(raw)
            st[i \in 0..n] ==
                IF i = 0 THEN QnaStart ELSE QnaLine(st[i - 1], raw[i])
        IN  /\ qna_pairs = ParseQna(qna_text)
            /\ \A i \in 1..n :
                  LET line == Strip(raw[i]) IN
                  IsQuestionLine(line) =>
                      /\ st[i].current_q = AfterQuestionPrefix(line)
                      /\ st[i].qna_pairs =
                             IF st[i - 1].current_q # << >> /\ st[i - 1].current_a # << >>
                             THEN Append(st[i - 1].qna_pairs,
                                         [question |-> st[i - 1].current_q,
                                          answer   |-> st[i - 1].current_a])
                             ELSE st[i - 1].qna_pairs
                      /\ st[i].current_a = << >>

====
